---- MODULE Spec2Model ----
(***************************************************************************)
(* Model of the market-surveillance core of lukhed_markets/polymarket.py:  *)
(* the whale monitor (MarketWebSocket + monitor_market_for_whales), the    *)
(* transport on its own (handshake, ping thread, control frames, message   *)
(* dispatch) and the position poller (monitor_user_positions) with the     *)
(* handle it returns.                                                      *)
(*                                                                         *)
(* Numbers: sizes and thresholds are whole shares / dollars, prices are in *)
(* tenths of a dollar (0.6 is written 6), so size * price is in tenths and *)
(* is compared with 10 * min_trade_value.  Python floats are modelled as   *)
(* exact numbers; float rounding is outside the model.                     *)
(***************************************************************************)
EXTENDS Integers, Sequences, FiniteSets, TLC

VARIABLES
    \* ---- whale monitor ----
    wm_call,            \* outcome of the monitor_market_for_whales call
    wm_markets,         \* the markets argument of that call
    wm_asset_ids,       \* the asset_ids argument of that call
    wm_resolved,        \* asset_ids as they stand after the resolution block
    wm_cfg,             \* closure of whale_filter_callback: thresholds, callback
    ws_created,         \* a MarketWebSocket object exists
    ws_asset_ids,       \* MarketWebSocket.asset_ids
    ws_thread_started,  \* the daemon thread running ws.run_forever()
    ws_opened,          \* on_open has run
    ws_running,         \* run_forever is still dispatching messages
    ws_sent,            \* frames sent over the socket, in order
    ping_started,       \* the ping thread of on_open was started
    last_frame,         \* the frame most recently given to on_message
    last_result,        \* what handling that frame did
    earlier,            \* history: what handling of the frames before it did
    \* ---- transport: ping thread, control frames, dispatch ----
    ws_has_callback,    \* MarketWebSocket.message_callback is not None
    ws_initial_ids,     \* history: the asset_ids given at construction
    ping_pc,            \* ping_loop position: "none", "send", "sleep", "ended"
    ping_times,         \* history: the clock at each PING sent
    clock,              \* time units slept by the ping thread so far
    t_calls,            \* history: subscribe/unsubscribe calls made, in order
    om_active,          \* on_message invocations that have not returned
    om_frame,           \* the frame on_message is handling
    cb_active,          \* message_callback invocations that have not returned
    om_count,           \* history: frames handled so far
    om_pinged,          \* history: a PING was sent while on_message was running
    \* ---- position poller ----
    p_started,          \* monitor_user_positions was called
    p_address,          \* its address argument
    p_callback,         \* its callback argument is not None
    p_pc,               \* poll_loop position: "fetch" or "sleep"
    p_interval,         \* its poll_interval argument
    p_gap,              \* history: the sleeps that returned since the last fetch
    last_positions,     \* poll_loop's retained snapshot (ordered dict)
    p_initialized,      \* history: line 919 has executed at least once
    p_cycle,            \* history: what the most recent cycle did
    \* ---- several pollers started from one Polymarket object ----
    pl_started,         \* per call: monitor_user_positions was called
    pl_pc,              \* per call: its poll_loop's position
    pl_last_positions,  \* per poll_loop activation: its local last_positions
    pl_cycle,           \* history, per call: what its most recent cycle did
    \* ---- the handle monitor_user_positions returns ----
    h_stop_calls,       \* history: how many times handle.stop() was called
    h_stop_raised,      \* the most recent handle.stop() raised
    h_after_stop,       \* history: cycles run since the first stop call
    h_late_callback,    \* history: a cycle past the in-flight one invoked the callback
    \* ---- the diff block on its own ----
    d_prev,             \* a previous snapshot
    d_cur,              \* a current snapshot
    d_done,             \* the diff of the two was computed
    d_changes           \* the changes dict computed

whale_vars == <<wm_call, wm_markets, wm_asset_ids,
                   wm_resolved, wm_cfg, ws_created,
                ws_asset_ids, ws_thread_started, ws_opened, ws_running, ws_sent,
                ping_started, last_frame, last_result, earlier>>
pollers_vars == <<pl_started, pl_pc, pl_last_positions, pl_cycle>>
poller_vars == <<p_started, p_address, p_callback, p_pc, p_interval, p_gap,
                 last_positions, p_initialized, p_cycle, pollers_vars>>
transport_vars == <<ws_has_callback, ws_initial_ids, ping_pc, ping_times, clock,
                    t_calls, om_active, om_frame, cb_active, om_count, om_pinged>>
handle_vars == <<h_stop_calls, h_stop_raised, h_after_stop, h_late_callback>>
diff_vars == <<d_prev, d_cur, d_done, d_changes>>
vars == <<whale_vars, transport_vars, poller_vars, handle_vars, diff_vars>>

\* ---------------------------------------------------------------- bounds
\* longest `markets` list passed to monitor_market_for_whales
MaxMarkets == 2
\* longest position list one fetch returns
MaxPositions == 2
\* most calls of stop() made on one handle
MaxStopCalls == 2
\* most PING frames one connection sends
MaxPings == 3
\* most subscribe_to_assets / unsubscribe_from_assets calls on one object
MaxCalls == 2
\* most inbound frames one connection dispatches
MaxMessages == 2
\* most monitor_user_positions calls made on one Polymarket object
MaxPollers == 2

\* ------------------------------------------------------------ whale: data
\* all sequences over S of length at most n
SeqUpTo(S, n) == UNION {[1..k -> S] : k \in 0..n}

\* Raw JSON value of a numeric field of a message: absent key, JSON number,
\* numeric string, non-numeric string, null.
SizeFields == {[k |-> "absent", v |-> 0], [k |-> "num", v |-> 5],
               [k |-> "str", v |-> 10], [k |-> "text", v |-> 0]}
PriceFields == {[k |-> "absent", v |-> 0], [k |-> "num", v |-> 5],
                [k |-> "str", v |-> 6], [k |-> "null", v |-> 0]}
NoField == [k |-> "absent", v |-> 0]

\* data.get('event_type') / data.get('status'); "None" is the missing key
EventTypes == {"trade", "book", "None"}
Statuses == {"MATCHED", "MINED"}

\* Inbound text frames: the keepalive ack, text that is not JSON, a JSON
\* array, a JSON object.
DictFrames == [kind : {"dict"}, event_type : EventTypes, status : Statuses,
               size : SizeFields, price : PriceFields]
OtherFrame(kind) == [kind |-> kind, event_type |-> "None", status |-> "None",
                     size |-> NoField, price |-> NoField]
Frames == DictFrames \cup {OtherFrame("PONG"), OtherFrame("garbage"), OtherFrame("list")}
NoFrame == OtherFrame("none")

SizeThresholds == {5, 20}
ValueThresholds == {[given |-> FALSE, v |-> 0], [given |-> TRUE, v |-> 0],
                    [given |-> TRUE, v |-> 5]}

\* ------------------------------------------------------ whale: resolution
\* Market identifiers a caller may pass, named by what the remote APIs answer.
MarketRefs == {"slug_ok", "slug_no_tokens", "unknown", "cond_ok", "api_down"}

\* get_event_by_slug: the request raises, or returns None on a non-200
\* status, or returns the event whose markets carry these token ids.
get_event_by_slug(ref) ==
    CASE ref = "slug_ok"        -> [raises |-> FALSE, found |-> TRUE,  tokens |-> <<"t1", "t2">>]
      [] ref = "slug_no_tokens" -> [raises |-> FALSE, found |-> TRUE,  tokens |-> <<>>]
      [] ref = "unknown"        -> [raises |-> FALSE, found |-> FALSE, tokens |-> <<>>]
      [] OTHER                  -> [raises |-> TRUE,  found |-> FALSE, tokens |-> <<>>]

\* get_markets(get_all_data=False) scanned for condition_id == ref
get_markets(ref) ==
    CASE ref = "cond_ok"  -> [raises |-> FALSE, tokens |-> <<"t3">>]
      [] ref = "api_down" -> [raises |-> TRUE,  tokens |-> <<>>]
      [] OTHER            -> [raises |-> FALSE, tokens |-> <<>>]

\* One iteration of the `for market_identifier in markets` loop.
ResolveOne(ref, acc) ==
    LET ev == get_event_by_slug(ref) IN
    IF ~ev.raises
      THEN [ids |-> IF ev.found THEN acc \o ev.tokens ELSE acc, raised |-> FALSE]
      ELSE LET ml == get_markets(ref) IN
           IF ml.raises THEN [ids |-> acc, raised |-> TRUE]
           ELSE [ids |-> acc \o ml.tokens, raised |-> FALSE]

RECURSIVE ResolveAll(_, _)
ResolveAll(markets, acc) ==
    IF markets = <<>> THEN [ids |-> acc, raised |-> FALSE]
    ELSE LET one == ResolveOne(Head(markets), acc) IN
         IF one.raised THEN one ELSE ResolveAll(Tail(markets), one.ids)

\* ---------------------------------------------------- whale: start call
NoArg == [given |-> FALSE, v |-> <<>>]
MarketsArgs == {NoArg} \cup {[given |-> TRUE, v |-> m] : m \in SeqUpTo(MarketRefs, MaxMarkets)}
FewMarketsArgs == {NoArg, [given |-> TRUE, v |-> <<"slug_ok">>]}
AssetIdsArgs == {NoArg, [given |-> TRUE, v |-> <<>>], [given |-> TRUE, v |-> <<"t9">>]}

\* whale_targets without the `if not asset_ids: raise` of lines 782-783
whale_targets_unchecked(markets, asset_ids) ==
    IF ~asset_ids.given /\ ~markets.given
      THEN [call |-> "ValueError_args", ids |-> <<>>]
    ELSE IF markets.given
      THEN LET r == ResolveAll(markets.v, <<>>) IN
           IF r.raised THEN [call |-> "propagated", ids |-> r.ids]
           ELSE [call |-> "subscribe", ids |-> r.ids]
    ELSE [call |-> "subscribe", ids |-> asset_ids.v]

\* whale_targets that keeps a given asset_ids list in front of the resolved ids
whale_targets_keep_given(markets, asset_ids) ==
    IF ~asset_ids.given /\ ~markets.given
      THEN [call |-> "ValueError_args", ids |-> <<>>]
    ELSE IF markets.given
      THEN LET r == ResolveAll(markets.v, asset_ids.v) IN
           IF r.raised THEN [call |-> "propagated", ids |-> r.ids]
           ELSE IF r.ids = <<>> THEN [call |-> "ValueError_resolution", ids |-> r.ids]
           ELSE [call |-> "subscribe", ids |-> r.ids]
    ELSE [call |-> "subscribe", ids |-> asset_ids.v]

\* Lines 756-787 of monitor_market_for_whales: which asset ids the monitor is
\* started on, or how the call ends before any connection is made.
\*   call: "ValueError_args" (line 758), "ValueError_resolution" (line 783),
\*         "propagated" (get_markets raised inside the bare except), "subscribe"
whale_targets(markets, asset_ids) ==
    IF ~asset_ids.given /\ ~markets.given
      THEN [call |-> "ValueError_args", ids |-> <<>>]
    ELSE IF markets.given
      THEN LET r == ResolveAll(markets.v, <<>>) IN
           IF r.raised THEN [call |-> "propagated", ids |-> r.ids]
           ELSE IF r.ids = <<>> THEN [call |-> "ValueError_resolution", ids |-> r.ids]
           ELSE [call |-> "subscribe", ids |-> r.ids]
    ELSE [call |-> "subscribe", ids |-> asset_ids.v]

\* ---------------------------------------------------- whale: the filter
\* (ParseFloat_lenient: a float() that reads anything unparseable as 0)
\* float(data.get(key, 0)): a missing key is 0, a number or numeric string
\* its value, anything else raises ValueError / TypeError.
ParseFloat_lenient(raw) ==
    CASE raw.k \in {"num", "str"}  -> [ok |-> TRUE, v |-> raw.v]
      [] OTHER                     -> [ok |-> TRUE, v |-> 0]

ParseFloat(raw) ==
    CASE raw.k = "absent"          -> [ok |-> TRUE,  v |-> 0]
      [] raw.k \in {"num", "str"}  -> [ok |-> TRUE,  v |-> raw.v]
      [] OTHER                     -> [ok |-> FALSE, v |-> 0]

\* is_whale with strict comparisons
is_whale_strict(size, price, min_trade_size, min_trade_value) ==
    IF min_trade_value.given
      THEN size * price > 10 * min_trade_value.v
      ELSE size > min_trade_size

\* is_whale with the two thresholds combined when both are set
is_whale_both(size, price, min_trade_size, min_trade_value) ==
    IF min_trade_value.given
      THEN size * price >= 10 * min_trade_value.v /\ size >= min_trade_size
      ELSE size >= min_trade_size

\* Lines 798-802. size in shares, price in tenths.
is_whale(size, price, min_trade_size, min_trade_value) ==
    IF min_trade_value.given
      THEN size * price >= 10 * min_trade_value.v
      ELSE size >= min_trade_size

FilterQuiet == [invoked |-> FALSE, printed |-> FALSE, cb_raised |-> FALSE, error |-> "none"]

\* whale_filter_try without the status test of line 792
whale_filter_try_any_status(data, cfg, cbRaises) ==
    IF data.kind /= "dict" THEN [FilterQuiet EXCEPT !.error = "AttributeError"]
    ELSE IF data.event_type /= "trade" THEN FilterQuiet
    ELSE LET size == ParseFloat(data.size)
             price == ParseFloat(data.price) IN
         IF ~size.ok \/ ~price.ok THEN [FilterQuiet EXCEPT !.error = "float"]
         ELSE IF ~is_whale(size.v, price.v, cfg.min_trade_size, cfg.min_trade_value)
           THEN FilterQuiet
         ELSE IF cfg.callback
           THEN [FilterQuiet EXCEPT !.invoked = TRUE, !.cb_raised = cbRaises,
                                    !.error = IF cbRaises THEN "callback" ELSE "none"]
         ELSE [FilterQuiet EXCEPT !.printed = TRUE]

\* whale_filter_try without the event_type test of line 795
whale_filter_try_any_event(data, cfg, cbRaises) ==
    IF data.kind /= "dict" THEN [FilterQuiet EXCEPT !.error = "AttributeError"]
    ELSE IF data.status /= "MATCHED" THEN FilterQuiet
    ELSE LET size == ParseFloat(data.size)
             price == ParseFloat(data.price) IN
         IF ~size.ok \/ ~price.ok THEN [FilterQuiet EXCEPT !.error = "float"]
         ELSE IF ~is_whale(size.v, price.v, cfg.min_trade_size, cfg.min_trade_value)
           THEN FilterQuiet
         ELSE IF cfg.callback
           THEN [FilterQuiet EXCEPT !.invoked = TRUE, !.cb_raised = cbRaises,
                                    !.error = IF cbRaises THEN "callback" ELSE "none"]
         ELSE [FilterQuiet EXCEPT !.printed = TRUE]

\* The try block of whale_filter_callback, lines 792-814.  error names the
\* exception that leaves the block: "AttributeError" (data is not a dict),
\* "float" (size or price does not parse), "callback" (the user callback raised).
whale_filter_try(data, cfg, cbRaises) ==
    IF data.kind /= "dict" THEN [FilterQuiet EXCEPT !.error = "AttributeError"]
    ELSE IF ~(data.event_type = "trade" /\ data.status = "MATCHED") THEN FilterQuiet
    ELSE LET size == ParseFloat(data.size)
             price == ParseFloat(data.price) IN
         IF ~size.ok \/ ~price.ok THEN [FilterQuiet EXCEPT !.error = "float"]
         ELSE IF ~is_whale(size.v, price.v, cfg.min_trade_size, cfg.min_trade_value)
           THEN FilterQuiet
         ELSE IF cfg.callback
           THEN [FilterQuiet EXCEPT !.invoked = TRUE, !.cb_raised = cbRaises,
                                    !.error = IF cbRaises THEN "callback" ELSE "none"]
         ELSE [FilterQuiet EXCEPT !.printed = TRUE]

\* whale_filter_callback without its except clause
whale_filter_callback_uncaught(data, cfg, cbRaises) ==
    LET b == whale_filter_try(data, cfg, cbRaises) IN
    [invoked |-> b.invoked, printed |-> b.printed, cb_raised |-> b.cb_raised,
     error |-> b.error, filter_logged |-> FALSE, filter_escaped |-> b.error /= "none"]

\* whale_filter_callback: the try block under `except Exception` (line 815).
whale_filter_callback(data, cfg, cbRaises) ==
    LET b == whale_filter_try(data, cfg, cbRaises) IN
    [invoked |-> b.invoked, printed |-> b.printed, cb_raised |-> b.cb_raised,
     error |-> b.error, filter_logged |-> b.error /= "none", filter_escaped |-> FALSE]

NoResult == [delivered |-> FALSE, invoked |-> FALSE, printed |-> FALSE, cb_raised |-> FALSE,
             error |-> "none", filter_logged |-> FALSE, filter_escaped |-> FALSE,
             om_logged |-> FALSE, om_escaped |-> FALSE]

\* on_message without its try/except: text that is not JSON raises out of it
on_message_unguarded(message, cfg, cbRaises) ==
    IF message.kind = "PONG" THEN NoResult
    ELSE IF message.kind = "garbage" THEN [NoResult EXCEPT !.om_escaped = TRUE]
    ELSE LET r == whale_filter_callback(message, cfg, cbRaises) IN
         [delivered |-> TRUE, invoked |-> r.invoked, printed |-> r.printed,
          cb_raised |-> r.cb_raised, error |-> r.error,
          filter_logged |-> r.filter_logged, filter_escaped |-> r.filter_escaped,
          om_logged |-> FALSE, om_escaped |-> r.filter_escaped]

\* MarketWebSocket.on_message with message_callback = whale_filter_callback.
on_message(message, cfg, cbRaises) ==
    IF message.kind = "PONG" THEN NoResult
    ELSE IF message.kind = "garbage" THEN [NoResult EXCEPT !.om_logged = TRUE]
    ELSE LET r == whale_filter_callback(message, cfg, cbRaises) IN
         [delivered |-> TRUE, invoked |-> r.invoked, printed |-> r.printed,
          cb_raised |-> r.cb_raised, error |-> r.error,
          filter_logged |-> r.filter_logged, filter_escaped |-> r.filter_escaped,
          om_logged |-> r.filter_escaped, om_escaped |-> FALSE]

\* ------------------------------------------------------ transport: data
\* json.dumps({"assets_ids": ids, "type": "market"}) and the control frames
\* {"assets_ids": ids, "operation": op}; frame holds the type or operation.
Frame(kind, ids) == [frame |-> kind, assets_ids |-> ids]
PingFrame == Frame("PING", <<>>)

\* an on_open that sends its first keepalive ahead of the handshake
on_open_frames_ping_first(asset_ids) == <<PingFrame, Frame("market", asset_ids)>>

\* What on_open itself sends (line 51): one handshake frame carrying
\* self.asset_ids.
on_open_frames(asset_ids) == <<Frame("market", asset_ids)>>

\* time.sleep(10), line 58
PingInterval == 10

\* a ping_loop whose except clause goes round again
ping_loop_retry(sendRaises) == "sleep"

\* a ping_loop without its `while True`
ping_loop_once(sendRaises) == "ended"

\* One pass of ping_loop's body (lines 55-60): where the thread is after
\* ws.send("PING").  A send that raises takes the bare except and breaks.
ping_loop_body(sendRaises) == IF sendRaises THEN "ended" ELSE "sleep"

\* ws.send on the WebSocketApp: it raises unless the connection is open
\* (the case ping_loop's except is there for).
send_raises(opened, running) == ~(opened /\ running)

NoCfg == [min_trade_size |-> 0, min_trade_value |-> [given |-> FALSE, v |-> 0],
          callback |-> FALSE]
NoHistory == [cb_raised |-> FALSE, parse_error |-> FALSE, dropped |-> FALSE]

InitWhale ==
    /\ wm_call = "not_called"
    /\ wm_markets = NoArg
    /\ wm_asset_ids = NoArg
    /\ wm_resolved = <<>>
    /\ wm_cfg = NoCfg
    /\ ws_created = FALSE
    /\ ws_asset_ids = <<>>
    /\ ws_thread_started = FALSE
    /\ ws_opened = FALSE
    /\ ws_running = FALSE
    /\ ws_sent = <<>>
    /\ ping_started = FALSE
    /\ last_frame = NoFrame
    /\ last_result = NoResult
    /\ earlier = NoHistory

\* The call monitor_market_for_whales(markets, asset_ids, min_trade_size,
\* min_trade_value, callback), through subscribe_to_markets (lines 701-711).
start_whale_monitor_with(MarketsChoices, IdsChoices, Sizes, Thresholds, Callbacks) ==
    /\ wm_call = "not_called"
    /\ \E markets \in MarketsChoices, asset_ids \in IdsChoices,
          min_trade_size \in Sizes, min_trade_value \in Thresholds,
          callback \in Callbacks :
         LET t == whale_targets(markets, asset_ids) IN
         /\ wm_markets' = markets
         /\ wm_asset_ids' = asset_ids
         /\ wm_resolved' = t.ids
         /\ IF t.call = "subscribe"
              THEN /\ wm_call' = "returned"
                   /\ wm_cfg' = [min_trade_size |-> min_trade_size,
                                 min_trade_value |-> min_trade_value,
                                 callback |-> callback]
                   /\ ws_created' = TRUE
                   /\ ws_asset_ids' = t.ids
                   /\ ws_initial_ids' = t.ids
                   /\ ws_has_callback' = TRUE
                   /\ ws_thread_started' = TRUE
                   /\ ws_running' = TRUE
              ELSE /\ wm_call' = t.call
                   /\ UNCHANGED <<wm_cfg, ws_created, ws_asset_ids, ws_initial_ids,
                                  ws_has_callback, ws_thread_started, ws_running>>
    /\ UNCHANGED <<ws_opened, ws_sent, ping_started, last_frame, last_result, earlier>>
    /\ UNCHANGED <<ping_pc, ping_times, clock, t_calls, om_active, om_frame,
                   cb_active, om_count, om_pinged>>
    /\ UNCHANGED <<poller_vars, handle_vars, diff_vars>>

start_whale_monitor(MarketsChoices) ==
    start_whale_monitor_with(MarketsChoices, AssetIdsArgs, SizeThresholds,
                             ValueThresholds, BOOLEAN)

monitor_market_for_whales == start_whale_monitor(MarketsArgs)
\* the same call, its markets argument absent or one resolvable slug
monitor_market_for_whales_few == start_whale_monitor(FewMarketsArgs)
\* the same call on one resolvable slug, with one size threshold, no value
\* threshold and a callback
monitor_market_for_whales_slug ==
    start_whale_monitor_with({[given |-> TRUE, v |-> <<"slug_ok">>]}, {NoArg},
                             {x \in SizeThresholds : \A y \in SizeThresholds : x <= y},
                             {x \in ValueThresholds : ~x.given},
                             {TRUE})

\* MarketWebSocket.on_open, called by the dispatcher once the connection is
\* open: the handshake frame (line 51), then the ping thread is started
\* (lines 62-63) and begins at its first send.
on_open ==
    /\ ws_thread_started /\ ws_running /\ ~ws_opened
    /\ ws_opened' = TRUE
    /\ ws_sent' = ws_sent \o on_open_frames(ws_asset_ids)
    /\ ping_started' = TRUE
    /\ ping_pc' = "send"
    /\ UNCHANGED <<wm_call, wm_markets, wm_asset_ids,
                   wm_resolved, wm_cfg, ws_created,
                   ws_asset_ids, ws_thread_started, ws_running, last_frame,
                   last_result, earlier>>
    /\ UNCHANGED <<ws_has_callback, ws_initial_ids, ping_times, clock, t_calls,
                   om_active, om_frame, cb_active, om_count, om_pinged>>
    /\ UNCHANGED <<poller_vars, handle_vars, diff_vars>>

\* One inbound frame dispatched to on_message.  An exception leaving
\* on_message would be the dispatcher's to handle; it is taken to end the loop.
receive_message ==
    /\ ws_opened /\ ws_running
    /\ \E message \in Frames, cbRaises \in BOOLEAN :
         LET r == on_message(message, wm_cfg, cbRaises) IN
         /\ last_frame' = message
         /\ last_result' = r
         /\ ws_running' = ~r.om_escaped
    /\ earlier' = IF last_frame = NoFrame THEN earlier
                  ELSE [cb_raised |-> earlier.cb_raised \/ last_result.cb_raised,
                        parse_error |-> earlier.parse_error \/ last_result.error = "float",
                        dropped |-> earlier.dropped \/ last_frame.kind \in {"PONG", "garbage"}]
    /\ UNCHANGED <<wm_call, wm_markets, wm_asset_ids,
                   wm_resolved, wm_cfg, ws_created,
                   ws_asset_ids, ws_thread_started, ws_opened, ws_sent, ping_started>>
    /\ UNCHANGED <<poller_vars, handle_vars, diff_vars>>
    /\ UNCHANGED transport_vars

\* --------------------------------------------------- transport: actions
\* asset id lists a caller passes to subscribe_to_markets, and to
\* subscribe_to_assets / unsubscribe_from_assets ("t1" is in the former too)
InitialIdsArgs == {<<>>, <<"t1">>, <<"t1", "t2">>}
CallIds == {<<"t1">>, <<"t3">>}

InitTransport ==
    /\ ws_has_callback = FALSE
    /\ ws_initial_ids = <<>>
    /\ ping_pc = "none"
    /\ ping_times = <<>>
    /\ clock = 0
    /\ t_calls = <<>>
    /\ om_active = 0
    /\ om_frame = "none"
    /\ cb_active = 0
    /\ om_count = 0
    /\ om_pinged = FALSE

\* subscribe_to_markets(asset_ids, callback), lines 701-711: the object is
\* built, one daemon thread is started on ws_monitor.run, the object is
\* returned at once (the connection is not open yet).
subscribe_to_markets ==
    /\ ~ws_created /\ wm_call = "not_called"
    /\ \E asset_ids \in InitialIdsArgs, callback \in BOOLEAN :
         /\ ws_asset_ids' = asset_ids
         /\ ws_initial_ids' = asset_ids
         /\ ws_has_callback' = callback
    /\ ws_created' = TRUE
    /\ ws_thread_started' = TRUE
    /\ ws_running' = TRUE
    /\ UNCHANGED <<wm_call, wm_markets, wm_asset_ids,
                   wm_resolved, wm_cfg, ws_opened, ws_sent,
                   ping_started, last_frame, last_result, earlier>>
    /\ UNCHANGED <<ping_pc, ping_times, clock, t_calls, om_active, om_frame,
                   cb_active, om_count, om_pinged>>
    /\ UNCHANGED <<poller_vars, handle_vars, diff_vars>>

\* The peer or the network ends the connection (or the connect fails):
\* on_error / on_close print (lines 43-47) and run_forever returns.  The
\* dispatcher notices between two frames.
connection_closed ==
    /\ ws_thread_started /\ ws_running /\ om_active = 0
    /\ ws_running' = FALSE
    /\ UNCHANGED <<wm_call, wm_markets, wm_asset_ids,
                   wm_resolved, wm_cfg, ws_created, ws_asset_ids,
                   ws_thread_started, ws_opened, ws_sent, ping_started, last_frame,
                   last_result, earlier>>
    /\ UNCHANGED transport_vars
    /\ UNCHANGED <<poller_vars, handle_vars, diff_vars>>

\* ping_loop at ws.send("PING") (line 57).
ping_send ==
    /\ ping_pc = "send"
    /\ LET raises == send_raises(ws_opened, ws_running) IN
       /\ raises \/ Len(ping_times) < MaxPings
       /\ ping_pc' = ping_loop_body(raises)
       /\ ws_sent' = IF raises THEN ws_sent ELSE Append(ws_sent, PingFrame)
       /\ ping_times' = IF raises THEN ping_times ELSE Append(ping_times, clock)
       /\ om_pinged' = (om_pinged \/ (~raises /\ om_active > 0))
    /\ UNCHANGED <<wm_call, wm_markets, wm_asset_ids,
                   wm_resolved, wm_cfg, ws_created, ws_asset_ids,
                   ws_thread_started, ws_opened, ws_running, ping_started, last_frame,
                   last_result, earlier>>
    /\ UNCHANGED <<ws_has_callback, ws_initial_ids, clock, t_calls, om_active,
                   om_frame, cb_active, om_count>>
    /\ UNCHANGED <<poller_vars, handle_vars, diff_vars>>

\* time.sleep(10) returns (line 58) and the loop goes round.
ping_wake ==
    /\ ping_pc = "sleep"
    /\ ping_pc' = "send"
    /\ clock' = clock + PingInterval
    /\ UNCHANGED whale_vars
    /\ UNCHANGED <<ws_has_callback, ws_initial_ids, ping_times, t_calls, om_active,
                   om_frame, cb_active, om_count, om_pinged>>
    /\ UNCHANGED <<poller_vars, handle_vars, diff_vars>>

\* subscribe_to_assets / unsubscribe_from_assets (lines 65-73), called by the
\* owner of the object from its own thread: self.ws.send of one control
\* frame, then a print.  self.asset_ids is not assigned.
control_call(op) ==
    /\ ws_created /\ Len(t_calls) < MaxCalls
    /\ \E ids \in CallIds :
         LET raises == send_raises(ws_opened, ws_running) IN
         /\ ws_sent' = IF raises THEN ws_sent ELSE Append(ws_sent, Frame(op, ids))
         /\ t_calls' = Append(t_calls, [op |-> op, ids |-> ids, raised |-> raises])
    /\ UNCHANGED <<wm_call, wm_markets, wm_asset_ids,
                   wm_resolved, wm_cfg, ws_created, ws_asset_ids,
                   ws_thread_started, ws_opened, ws_running, ping_started, last_frame,
                   last_result, earlier>>
    /\ UNCHANGED <<ws_has_callback, ws_initial_ids, ping_pc, ping_times, clock,
                   om_active, om_frame, cb_active, om_count, om_pinged>>
    /\ UNCHANGED <<poller_vars, handle_vars, diff_vars>>

subscribe_to_assets == control_call("subscribe")
unsubscribe_from_assets == control_call("unsubscribe")

\* ------------------------------------------------- transport: dispatch
\* inbound text frames by what on_message does with them
DispatchFrames == {"PONG", "garbage", "json"}

\* on_message reaches self.message_callback(data) (lines 34-37)
calls_back(message, has_callback) == message = "json" /\ has_callback

\* a dispatcher that hands every frame to a thread of its own
dispatcher_free_threaded(active) == TRUE

\* run_forever runs in the one thread subscribe_to_markets started (lines
\* 76, 708) and calls on_message itself: it reads the next frame when
\* on_message has returned.
dispatcher_free(active) == active = 0

\* run_forever hands one inbound frame to on_message.
begin_message ==
    /\ ws_opened /\ ws_running /\ om_count < MaxMessages
    /\ dispatcher_free(om_active)
    /\ \E message \in DispatchFrames :
         /\ om_frame' = message
         /\ cb_active' = cb_active + IF calls_back(message, ws_has_callback) THEN 1 ELSE 0
    /\ om_active' = om_active + 1
    /\ om_count' = om_count + 1
    /\ UNCHANGED whale_vars
    /\ UNCHANGED <<ws_has_callback, ws_initial_ids, ping_pc, ping_times, clock,
                   t_calls, om_pinged>>
    /\ UNCHANGED <<poller_vars, handle_vars, diff_vars>>

\* on_message returns (its except clause keeps every exception in).
end_message ==
    /\ om_active > 0
    /\ om_active' = om_active - 1
    /\ cb_active' = cb_active - IF calls_back(om_frame, ws_has_callback) THEN 1 ELSE 0
    /\ om_frame' = "none"
    /\ UNCHANGED whale_vars
    /\ UNCHANGED <<ws_has_callback, ws_initial_ids, ping_pc, ping_times, clock,
                   t_calls, om_count, om_pinged>>
    /\ UNCHANGED <<poller_vars, handle_vars, diff_vars>>

\* ------------------------------------------------------- poller: data
\* Positions as the data API returns them (only the fields the loop reads).
\* The poller is run on Positions; the diff block alone on the larger DiffPositions.
Positions == {[market |-> "a",   outcome |-> "b_c", size |-> 1],
              [market |-> "a_b", outcome |-> "c",   size |-> 2],
              [market |-> "a",   outcome |-> "c",   size |-> 1],
              [market |-> "a",   outcome |-> "c",   size |-> 2]}
DiffPositions == Positions \cup {[market |-> "b", outcome |-> "c", size |-> 1],
                                 [market |-> "b", outcome |-> "c", size |-> 2]}
Addresses == {"0xA", "0xB"}

\* What the positions request does: raises, answers a non-200 status with a
\* JSON body, answers a non-200 status with a body that is not JSON, answers
\* 200 with a body that is not JSON, or answers 200 with a list of positions.
Responses == {[kind |-> "raise", data |-> <<>>], [kind |-> "http_error", data |-> <<>>],
              [kind |-> "http_error_not_json", data |-> <<>>],
              [kind |-> "not_json", data |-> <<>>]}
             \cup {[kind |-> "ok", data |-> l] : l \in SeqUpTo(Positions, MaxPositions)}

\* a get_current_positions_for_user that raises on a non-200 status
get_current_positions_for_user_strict(resp) ==
    CASE resp.kind \in {"raise", "http_error", "http_error_not_json"}
                                -> [raised |-> TRUE,  is_list |-> FALSE, list |-> <<>>]
      [] resp.kind = "not_json" -> [raised |-> FALSE, is_list |-> FALSE, list |-> <<>>]
      [] OTHER                  -> [raised |-> FALSE, is_list |-> TRUE,  list |-> resp.data]

\* get_current_positions_for_user with get_all_data=False (lines 663-667),
\* over _call_api (lines 123-135): [] on a non-200 status, else the decoded
\* body, which is None when the body is not JSON.
get_current_positions_for_user(resp) ==
    CASE resp.kind = "raise"      -> [raised |-> TRUE,  is_list |-> FALSE, list |-> <<>>]
      [] resp.kind = "http_error" -> [raised |-> FALSE, is_list |-> TRUE,  list |-> <<>>]
      [] resp.kind = "http_error_not_json"
                                  -> [raised |-> FALSE, is_list |-> TRUE,  list |-> <<>>]
      [] resp.kind = "not_json"   -> [raised |-> FALSE, is_list |-> FALSE, list |-> <<>>]
      [] OTHER                    -> [raised |-> FALSE, is_list |-> TRUE,  list |-> resp.data]

\* key = f"{pos.get('market')}_{pos.get('outcome')}"  (line 877)
Key(pos) == pos.market \o "_" \o pos.outcome

\* A Python dict, in insertion order: a sequence of [key, pos] with distinct keys.
Keys(d) == {d[i].key : i \in 1..Len(d)}
Get(d, k) == d[CHOOSE i \in 1..Len(d) : d[i].key = k].pos
\* d[key] = pos
DictSet(d, k, pos) ==
    IF k \in Keys(d)
      THEN [i \in 1..Len(d) |-> IF d[i].key = k THEN [key |-> k, pos |-> pos] ELSE d[i]]
      ELSE Append(d, [key |-> k, pos |-> pos])

\* Lines 875-878: current_map built from the fetched list.
RECURSIVE BuildMapFrom(_, _)
BuildMapFrom(positions, d) ==
    IF positions = <<>> THEN d
    ELSE BuildMapFrom(Tail(positions), DictSet(d, Key(Head(positions)), Head(positions)))
BuildMap(positions) == BuildMapFrom(positions, <<>>)

Values(d) == [i \in 1..Len(d) |-> d[i].pos]

NoChanges == [new |-> <<>>, changed |-> <<>>, closed |-> <<>>]

\* Changes reporting a key as changed only when its size grew
Changes_growth_only(last, current_map) ==
    [new     |-> Values(SelectSeq(current_map, LAMBDA e : e.key \notin Keys(last))),
     changed |-> LET both == SelectSeq(current_map,
                                LAMBDA e : /\ e.key \in Keys(last)
                                           /\ e.pos.size > Get(last, e.key).size)
                 IN [i \in 1..Len(both) |->
                        [market   |-> both[i].pos.market,
                         outcome  |-> both[i].pos.outcome,
                         old_size |-> Get(last, both[i].key).size,
                         new_size |-> both[i].pos.size,
                         position |-> both[i].pos]],
     closed  |-> Values(SelectSeq(last, LAMBDA e : e.key \notin Keys(current_map)))]

\* Changes whose entries carry the two sizes the wrong way round
Changes_sizes_swapped(last, current_map) ==
    [new     |-> Values(SelectSeq(current_map, LAMBDA e : e.key \notin Keys(last))),
     changed |-> LET both == SelectSeq(current_map,
                                LAMBDA e : /\ e.key \in Keys(last)
                                           /\ e.pos.size /= Get(last, e.key).size)
                 IN [i \in 1..Len(both) |->
                        [market   |-> both[i].pos.market,
                         outcome  |-> both[i].pos.outcome,
                         old_size |-> both[i].pos.size,
                         new_size |-> Get(last, both[i].key).size,
                         position |-> both[i].pos]],
     closed  |-> Values(SelectSeq(last, LAMBDA e : e.key \notin Keys(current_map)))]

\* Lines 882-904: the changes dict computed from the two snapshots.
Changes(last, current_map) ==
    [new     |-> Values(SelectSeq(current_map, LAMBDA e : e.key \notin Keys(last))),
     changed |-> LET both == SelectSeq(current_map,
                                LAMBDA e : /\ e.key \in Keys(last)
                                           /\ e.pos.size /= Get(last, e.key).size)
                 IN [i \in 1..Len(both) |->
                        [market   |-> both[i].pos.market,
                         outcome  |-> both[i].pos.outcome,
                         old_size |-> Get(last, both[i].key).size,
                         new_size |-> both[i].pos.size,
                         position |-> both[i].pos]],
     closed  |-> Values(SelectSeq(last, LAMBDA e : e.key \notin Keys(current_map)))]

\* a guard that lets every cycle through
HasPrevious_always(last) == TRUE

\* `if last_positions:` (line 881): a dict is true when it is not empty.
HasPrevious(last) == last /= <<>>

\* any(changes.values())  (line 907)
AnyChanges(changes) ==
    changes.new /= <<>> \/ changes.changed /= <<>> \/ changes.closed /= <<>>

NoArgs == [address |-> "", positions |-> <<>>, changes |-> NoChanges]
NoCycle == [ran |-> FALSE, fetch |-> "none", failed |-> FALSE, had_prev |-> FALSE,
            prev |-> <<>>, current_positions |-> <<>>, current_map |-> <<>>,
            diffed |-> FALSE, changes |-> NoChanges, invoked |-> FALSE,
            printed |-> FALSE, cb_args |-> NoArgs, cb_raised |-> FALSE,
            stored |-> FALSE, new_last |-> <<>>, escaped |-> FALSE,
            after_raise |-> FALSE, steps |-> <<>>, slept |-> 0, gap |-> <<>>,
            not_first |-> FALSE, same_fetch |-> FALSE, same_prev |-> FALSE]

\* a store that merges the fetched entries into the older snapshot
store_snapshot_merged(last, current_map) == BuildMapFrom(Values(current_map), last)

\* last_positions = current_map (line 919): the name is rebound to the map
\* built in this cycle.
store_snapshot(last, current_map) == current_map

\* The try block of the loop body (lines 868-920).  failed says an exception
\* left the block; new_last is last_positions afterwards, assigned at line 919
\* only when the block got that far; steps lists the steps entered, in the
\* order they were entered; slept is the argument of the sleep of line 920.
poll_body(last, initialized, resp, address, callback, cbRaises, poll_interval) ==
    LET f == get_current_positions_for_user(resp)
        base == [NoCycle EXCEPT !.ran = TRUE, !.fetch = resp.kind,
                                !.had_prev = initialized, !.prev = last, !.new_last = last]
    IN
    IF f.raised THEN [base EXCEPT !.failed = TRUE, !.steps = <<"fetch">>]
    ELSE IF ~f.is_list THEN [base EXCEPT !.failed = TRUE, !.steps = <<"fetch", "build">>]
    ELSE LET current_map == BuildMap(f.list)
             diffed == HasPrevious(last)
             changes == IF diffed THEN Changes(last, current_map) ELSE NoChanges
             notify == diffed /\ AnyChanges(changes)
             invoked == notify /\ callback
             cb_raised == invoked /\ cbRaises
         IN [base EXCEPT !.current_positions = f.list,
                         !.current_map = current_map,
                         !.diffed = diffed,
                         !.changes = changes,
                         !.invoked = invoked,
                         !.printed = notify /\ ~callback,
                         !.cb_args = IF invoked
                                       THEN [address |-> address, positions |-> f.list,
                                             changes |-> changes]
                                       ELSE NoArgs,
                         !.cb_raised = cb_raised,
                         !.failed = cb_raised,
                         !.stored = ~cb_raised,
                         !.new_last = IF cb_raised THEN last
                                      ELSE store_snapshot(last, current_map),
                         !.steps = <<"fetch", "build">>
                                   \o (IF diffed THEN <<"diff">> ELSE <<>>)
                                   \o (IF invoked THEN <<"callback">> ELSE <<>>)
                                   \o (IF notify /\ ~callback THEN <<"print">> ELSE <<>>)
                                   \o (IF cb_raised THEN <<>> ELSE <<"store", "sleep">>),
                         !.slept = IF cb_raised THEN 0 ELSE poll_interval]

\* poll_try without its except clause
poll_try_uncaught(last, initialized, resp, address, callback, cbRaises, poll_interval) ==
    LET b == poll_body(last, initialized, resp, address, callback, cbRaises, poll_interval) IN
    [b EXCEPT !.escaped = b.failed]

\* poll_try whose except clause logs and goes straight back to the fetch
poll_try_no_sleep(last, initialized, resp, address, callback, cbRaises, poll_interval) ==
    LET b == poll_body(last, initialized, resp, address, callback, cbRaises, poll_interval) IN
    [b EXCEPT !.escaped = FALSE]

\* poll_try that stores the fetched map before it notifies
poll_try_store_first(last, initialized, resp, address, callback, cbRaises, poll_interval) ==
    LET b == poll_body(last, initialized, resp, address, callback, cbRaises, poll_interval) IN
    IF b.cb_raised
      THEN [b EXCEPT !.new_last = b.current_map, !.steps = b.steps \o <<"sleep">>,
                     !.slept = poll_interval]
      ELSE [b EXCEPT !.steps = IF b.failed THEN b.steps \o <<"sleep">> ELSE b.steps,
                     !.slept = poll_interval]

\* One pass through the body of `while True` (lines 867-924): the try block
\* under `except Exception` (line 922), which logs, leaves last_positions as
\* it is and sleeps poll_interval (line 924).
poll_try(last, initialized, resp, address, callback, cbRaises, poll_interval) ==
    LET b == poll_body(last, initialized, resp, address, callback, cbRaises, poll_interval) IN
    IF b.failed
      THEN [b EXCEPT !.escaped = FALSE, !.steps = b.steps \o <<"sleep">>,
                     !.slept = poll_interval]
      ELSE [b EXCEPT !.escaped = FALSE]

\* What the cycle just run is remembered as: beside what it did, only
\* whether the callback raised in the cycle before it (old).
cycle_record_last(old, c, gap) == [c EXCEPT !.after_raise = old.cb_raised]

\* The same with more of the cycle before it (old): the sleeps in between,
\* whether that one's callback raised and, if it did, whether this one
\* fetched the same list and read the same snapshot as it.
cycle_record(old, c, gap) ==
    [c EXCEPT !.after_raise = old.cb_raised,
              !.not_first = old.ran,
              !.gap = gap,
              !.same_fetch = (old.cb_raised /\ c.fetch = "ok"
                              /\ c.current_positions = old.current_positions),
              !.same_prev = (old.cb_raised /\ c.prev = old.prev)]

\* (address, poll_interval) of a call: with the default interval of 60, and
\* with an interval of the caller's
DefaultCallers == {[address |-> a, poll_interval |-> 60] : a \in Addresses}
IntervalCallers == {[address |-> "0xA", poll_interval |-> 5],
                    [address |-> "0xA", poll_interval |-> 60]}

\* a few of the Responses: the failures, and lists over one key
FewResponses ==
    {r \in Responses : r.kind /= "ok"}
    \cup {[kind |-> "ok", data |-> l] :
            l \in {<<>>, <<[market |-> "a", outcome |-> "c", size |-> 1]>>,
                   <<[market |-> "a", outcome |-> "c", size |-> 2]>>}}

\* ------------------------------------------------ poller: several calls
\* the monitor_user_positions calls made on one Polymarket object
Pollers == 1..MaxPollers

\* the address call i watches; every call here passes a callback and the
\* default poll_interval
AddressOf(i) == IF i = 1 THEN "0xA" ELSE "0xB"

\* the answers a fetch gets here: an exception, and the lists of one position
PairResponses ==
    {r \in FewResponses : r.kind = "raise" \/ (r.kind = "ok" /\ r.data /= <<>>)}

\* a poller whose snapshot is an attribute of the shared Polymarket object
snapshot_owner_shared(i) == 1

\* Which activation's last_positions the loop of call i reads and writes:
\* the name is a local of poll_loop (line 863), so each call's thread has
\* one of its own.
snapshot_owner(i) == i

\* ----------------------------------------------------- poller: actions
InitPoller ==
    /\ p_started = FALSE
    /\ p_callback = FALSE
    /\ p_address = ""
    /\ p_pc = "idle"
    /\ p_interval = 0
    /\ p_gap = <<>>
    /\ last_positions = <<>>
    /\ p_initialized = FALSE
    /\ p_cycle = NoCycle
    /\ pl_started = [i \in Pollers |-> FALSE]
    /\ pl_pc = [i \in Pollers |-> "idle"]
    /\ pl_last_positions = [i \in Pollers |-> <<>>]
    /\ pl_cycle = [i \in Pollers |-> NoCycle]

\* monitor_user_positions(address, poll_interval, callback): the thread starts
\* poll_loop with last_positions = {}.
start_poller(Callers) ==
    /\ ~p_started
    /\ p_started' = TRUE
    /\ \E caller \in Callers, callback \in BOOLEAN :
         /\ p_address' = caller.address
         /\ p_interval' = caller.poll_interval
         /\ p_callback' = callback
    /\ p_pc' = "fetch"
    /\ last_positions' = <<>>
    /\ UNCHANGED <<p_initialized, p_cycle, p_gap, pollers_vars>>
    /\ UNCHANGED <<whale_vars, transport_vars, handle_vars, diff_vars>>

monitor_user_positions == start_poller(DefaultCallers)
\* the same call with a poll_interval of the caller's
monitor_user_positions_interval == start_poller(IntervalCallers)

\* One cycle of poll_loop, to the point where it sleeps.  An exception that
\* left the loop body would end the thread ("dead"); a body that ended
\* without a sleep is back at the fetch at once.
poll_step(RespChoices, traced) ==
    /\ p_started /\ p_pc = "fetch"
    /\ \E resp \in RespChoices, cbRaises \in BOOLEAN :
         LET c == poll_try(last_positions, p_initialized, resp, p_address,
                           p_callback, cbRaises, p_interval) IN
         /\ p_cycle' = IF traced THEN cycle_record(p_cycle, c, p_gap)
                       ELSE cycle_record_last(p_cycle, c, p_gap)
         /\ last_positions' = c.new_last
         /\ p_initialized' = (p_initialized \/ c.stored)
         /\ p_pc' = IF c.escaped THEN "dead"
                    ELSE IF c.steps[Len(c.steps)] = "sleep" THEN "sleep" ELSE "fetch"
         /\ h_after_stop' = IF h_stop_calls = 0 THEN h_after_stop
                             ELSE IF h_after_stop = "none" THEN "in_flight" ELSE "more"
         /\ h_late_callback' = (h_late_callback \/ (h_after_stop /= "none" /\ c.invoked))
    /\ p_gap' = <<>>
    /\ UNCHANGED <<p_started, p_callback, p_address, p_interval, h_stop_calls,
                   h_stop_raised, pollers_vars>>
    /\ UNCHANGED <<whale_vars, transport_vars, diff_vars>>

poll_cycle == poll_step(Responses, FALSE)
\* the same cycle on a few answers, remembered beside the cycle before it
poll_cycle_traced == poll_step(FewResponses, TRUE)

\* time.sleep(poll_interval) returns (line 920 or 924).
poll_wake ==
    /\ p_started /\ p_pc = "sleep"
    /\ p_pc' = "fetch"
    /\ p_gap' = Append(p_gap, p_cycle.slept)
    /\ UNCHANGED <<p_started, p_callback, p_address, p_interval, last_positions,
                   p_initialized, p_cycle, pollers_vars>>
    /\ UNCHANGED <<whale_vars, transport_vars, handle_vars, diff_vars>>

\* monitor_user_positions called for the i-th time on the same object: a
\* new thread runs poll_loop, which starts with last_positions = {}.
monitor_user_positions_call(i) ==
    /\ ~pl_started[i]
    /\ \A j \in Pollers : j < i => pl_started[j]
    /\ pl_started' = [pl_started EXCEPT ![i] = TRUE]
    /\ pl_pc' = [pl_pc EXCEPT ![i] = "fetch"]
    /\ pl_last_positions' = [pl_last_positions EXCEPT ![snapshot_owner(i)] = <<>>]
    /\ UNCHANGED pl_cycle
    /\ UNCHANGED <<p_started, p_address, p_callback, p_pc, p_interval, p_gap,
                   last_positions, p_initialized, p_cycle>>
    /\ UNCHANGED <<whale_vars, transport_vars, handle_vars, diff_vars>>

\* One cycle of the poll_loop of call i.
poll_loop_cycle(i) ==
    /\ pl_started[i] /\ pl_pc[i] = "fetch"
    /\ \E resp \in PairResponses, cbRaises \in BOOLEAN :
         LET old == pl_cycle[i]
             c == poll_try(pl_last_positions[snapshot_owner(i)],
                           old.had_prev \/ old.stored, resp, AddressOf(i),
                           TRUE, cbRaises, 60) IN
         /\ pl_cycle' = [pl_cycle EXCEPT ![i] = c]
         /\ pl_last_positions' =
              [pl_last_positions EXCEPT ![snapshot_owner(i)] = c.new_last]
         /\ pl_pc' = [pl_pc EXCEPT ![i] =
                        IF c.escaped THEN "dead"
                        ELSE IF c.steps[Len(c.steps)] = "sleep" THEN "sleep"
                        ELSE "fetch"]
    /\ UNCHANGED pl_started
    /\ UNCHANGED <<p_started, p_address, p_callback, p_pc, p_interval, p_gap,
                   last_positions, p_initialized, p_cycle>>
    /\ UNCHANGED <<whale_vars, transport_vars, handle_vars, diff_vars>>

\* time.sleep(poll_interval) returns in the poll_loop of call i.
poll_loop_wake(i) ==
    /\ pl_started[i] /\ pl_pc[i] = "sleep"
    /\ pl_pc' = [pl_pc EXCEPT ![i] = "fetch"]
    /\ UNCHANGED <<pl_started, pl_last_positions, pl_cycle>>
    /\ UNCHANGED <<p_started, p_address, p_callback, p_pc, p_interval, p_gap,
                   last_positions, p_initialized, p_cycle>>
    /\ UNCHANGED <<whale_vars, transport_vars, handle_vars, diff_vars>>

\* ------------------------------------------------- poller: the handle
\* monitor_user_positions returns the threading.Thread it started (lines
\* 926-928); MarketWebSocket (lines 13-76) is what the whale monitor returns.
\* Neither has an attribute named stop, and poll_loop is `while True` with
\* no flag to test.
HandleHasStop == FALSE

InitHandle ==
    /\ h_stop_calls = 0
    /\ h_stop_raised = FALSE
    /\ h_after_stop = "none"
    /\ h_late_callback = FALSE

\* handle.stop() on the returned thread: the attribute lookup raises
\* AttributeError in the caller, and the poll thread is not touched.
stop ==
    /\ p_started
    /\ h_stop_calls < MaxStopCalls
    /\ h_stop_calls' = h_stop_calls + 1
    /\ h_stop_raised' = ~HandleHasStop
    /\ p_pc' = IF HandleHasStop THEN "stopped" ELSE p_pc
    /\ UNCHANGED <<p_started, p_callback, p_address, p_interval, p_gap, last_positions,
                   p_initialized, p_cycle, pollers_vars>>
    /\ UNCHANGED <<h_after_stop, h_late_callback>>
    /\ UNCHANGED <<whale_vars, transport_vars, diff_vars>>

\* --------------------------------------------------- snapshot diff alone
\* every snapshot poll_loop can build from one fetched list
Snapshots == {BuildMap(l) : l \in SeqUpTo(DiffPositions, MaxPositions)}

InitDiffIdle == d_prev = <<>> /\ d_cur = <<>> /\ d_done = FALSE /\ d_changes = NoChanges
InitDiffPairs ==
    /\ d_prev \in Snapshots
    /\ d_cur \in Snapshots
    /\ d_done = FALSE
    /\ d_changes = NoChanges

\* The diff block applied to one pair of snapshots.
snapshot_diff ==
    /\ ~d_done
    /\ d_done' = TRUE
    /\ d_changes' = Changes(d_prev, d_cur)
    /\ UNCHANGED <<d_prev, d_cur>>
    /\ UNCHANGED <<whale_vars, transport_vars, poller_vars, handle_vars>>

\* ------------------------------------------------------- specifications
Init == InitWhale /\ InitTransport /\ InitPoller /\ InitHandle /\ InitDiffIdle
InitDiff == InitWhale /\ InitTransport /\ InitPoller /\ InitHandle /\ InitDiffPairs

\* the start call on every bounded list of market references, and the open
NextWhaleStart ==
    \/ monitor_market_for_whales
    \/ on_open

\* the running monitor: started on a few targets, then frames arrive
NextWhale ==
    \/ monitor_market_for_whales_few
    \/ on_open
    \/ receive_message

NextPoller ==
    \/ monitor_user_positions
    \/ poll_cycle
    \/ poll_wake

\* the poller on a few answers, each cycle seen beside the one before it
NextPollerTraced ==
    \/ monitor_user_positions_interval
    \/ poll_cycle_traced
    \/ poll_wake

\* pollers and a whale monitor started from one object, in any interleaving
NextMonitors ==
    \/ \E i \in Pollers : monitor_user_positions_call(i)
    \/ \E i \in Pollers : poll_loop_cycle(i)
    \/ \E i \in Pollers : poll_loop_wake(i)
    \/ monitor_market_for_whales_slug
    \/ on_open

\* the poller with a caller that calls stop() on the returned handle
NextStop ==
    \/ monitor_user_positions
    \/ poll_cycle
    \/ poll_wake
    \/ stop

\* one transport: its ping thread, its owner's control calls, its end
NextTransport ==
    \/ subscribe_to_markets
    \/ on_open
    \/ ping_send
    \/ ping_wake
    \/ subscribe_to_assets
    \/ unsubscribe_from_assets
    \/ connection_closed

\* one transport: its dispatcher handling frames beside its ping thread
NextDispatch ==
    \/ subscribe_to_markets
    \/ on_open
    \/ begin_message
    \/ end_message
    \/ ping_send
    \/ ping_wake
    \/ connection_closed

NextDiff == snapshot_diff

SpecWhaleStart == Init /\ [][NextWhaleStart]_vars
SpecWhale == Init /\ [][NextWhale]_vars
SpecPoller == Init /\ [][NextPoller]_vars
SpecPollerTraced == Init /\ [][NextPollerTraced]_vars
SpecMonitors == Init /\ [][NextMonitors]_vars
SpecStop == Init /\ [][NextStop]_vars
SpecTransport == Init /\ [][NextTransport]_vars
SpecDispatch == Init /\ [][NextDispatch]_vars
SpecDiff == InitDiff /\ [][NextDiff]_vars

\* ------------------------------------------------- claims: whale monitor
\* How the claims read a message: a numeric field is a number when the key
\* is missing (the default 0), a JSON number or a numeric string.
Handled == last_frame /= NoFrame
IsNumber(raw) == raw.k \in {"absent", "num", "str"}
NumberOf(raw) == IF raw.k = "absent" THEN 0 ELSE raw.v
TradeSize == NumberOf(last_frame.size)
TradeValue == NumberOf(last_frame.size) * NumberOf(last_frame.price)
Malformed == ~IsNumber(last_frame.size) \/ ~IsNumber(last_frame.price)
MatchedTrade ==
    last_frame.kind = "dict" /\ last_frame.event_type = "trade" /\ last_frame.status = "MATCHED"
\* the thresholds as C1 states them (both comparisons inclusive)
MeetsThreshold ==
    \/ /\ wm_cfg.min_trade_value.given
       /\ IsNumber(last_frame.size) /\ IsNumber(last_frame.price)
       /\ TradeValue >= 10 * wm_cfg.min_trade_value.v
    \/ /\ ~wm_cfg.min_trade_value.given
       /\ IsNumber(last_frame.size)
       /\ TradeSize >= wm_cfg.min_trade_size
Qualifies == MatchedTrade /\ ~Malformed /\ MeetsThreshold

\* C1 as stated: for every received message the user callback is invoked iff
\* status is "MATCHED" and the configured threshold is met (value threshold if
\* configured, else size threshold).
C1_AsStated ==
    (wm_cfg.callback /\ Handled /\ last_frame.kind = "dict") =>
        (last_result.invoked <=> (last_frame.status = "MATCHED" /\ MeetsThreshold))

\* C1 amended: the user callback is invoked for a received message iff the
\* message is a JSON object with event_type "trade" and status "MATCHED", its
\* size and price both parse as numbers, and size*price >= the value threshold
\* when one is configured, else size >= the size threshold (both inclusive).
C1_WhaleFilter ==
    (wm_cfg.callback /\ Handled) => (last_result.invoked <=> Qualifies)

\* a trade exactly at a positive value threshold has fired
C1_Witness ==
    /\ last_result.invoked /\ MatchedTrade
    /\ wm_cfg.min_trade_value.given /\ wm_cfg.min_trade_value.v > 0
    /\ TradeValue = 10 * wm_cfg.min_trade_value.v

\* C2: with a value threshold configured, a MATCHED trade fires iff
\* size*price >= the value threshold, whatever the size threshold is.
C2_ValuePrecedence ==
    (wm_cfg.callback /\ Handled /\ MatchedTrade /\ ~Malformed
        /\ wm_cfg.min_trade_value.given) =>
        (last_result.invoked <=> TradeValue >= 10 * wm_cfg.min_trade_value.v)

\* a trade below the size threshold has fired on its value
C2_Witness ==
    /\ last_result.invoked /\ wm_cfg.min_trade_value.given
    /\ TradeSize < wm_cfg.min_trade_size
    /\ TradeValue >= 10 * wm_cfg.min_trade_value.v

\* C3: the user callback is never invoked with an event whose status is not
\* "MATCHED".
C3_OnlyMatched == last_result.invoked => last_frame.status = "MATCHED"

\* a trade event over both thresholds with another status was handled and
\* not forwarded
C3_Witness ==
    /\ Handled /\ wm_cfg.callback
    /\ last_frame.kind = "dict" /\ last_frame.event_type = "trade"
    /\ last_frame.status /= "MATCHED"
    /\ ~Malformed /\ MeetsThreshold
    /\ TradeSize >= wm_cfg.min_trade_size
    /\ ~last_result.invoked

\* C4: an exception raised by the user callback leaves neither the filter
\* callback nor on_message, the connection keeps dispatching, and every
\* qualifying event (also one that follows a raising callback) invokes the
\* callback.
C4_CallbackIsolation ==
    /\ ~last_result.filter_escaped
    /\ ~last_result.om_escaped
    /\ ws_opened => ws_running
    /\ (wm_cfg.callback /\ Handled /\ Qualifies) => last_result.invoked

\* after an earlier callback raised, a later qualifying event invoked it again
C4_Witness ==
    /\ earlier.cb_raised
    /\ last_result.invoked /\ Qualifies
    /\ ws_running

\* C5: a MATCHED trade event whose size or price does not parse invokes no
\* callback, raises nothing out of the handlers, and leaves the connection
\* dispatching.
C5_MalformedIgnored ==
    (Handled /\ MatchedTrade /\ Malformed) =>
        /\ ~last_result.invoked
        /\ ~last_result.filter_escaped
        /\ ~last_result.om_escaped
        /\ ws_running

\* after a malformed trade event, a later event was forwarded
C5_Witness ==
    /\ earlier.parse_error
    /\ last_result.invoked /\ Qualifies
    /\ ws_running

\* ------------------------------------------------- claims: whale start
\* C6: when the market references resolve to zero asset ids, the call ends
\* in the resolution ValueError, no MarketWebSocket exists, no thread was
\* started and no frame is ever sent.
C6_NoIdsNoConnection ==
    (wm_markets.given /\ wm_call \in {"returned", "ValueError_resolution"}
        /\ wm_resolved = <<>>) =>
        /\ wm_call = "ValueError_resolution"
        /\ ~ws_created
        /\ ~ws_thread_started
        /\ ~ws_opened
        /\ ws_sent = <<>>

\* a call given only references that resolve to nothing has failed
C6_Witness ==
    /\ wm_markets.given /\ wm_markets.v /= <<>>
    /\ wm_call = "ValueError_resolution"
    /\ ~ws_created

\* -------------------------------------------------- claims: snapshot diff
SeqSet(q) == {q[i] : i \in 1..Len(q)}
KeysOf(positions) == {Key(positions[i]) : i \in 1..Len(positions)}
NewKeys(prev, cur) == Keys(cur) \ Keys(prev)
ClosedKeys(prev, cur) == Keys(prev) \ Keys(cur)
ChangedKeys(prev, cur) ==
    {k \in Keys(cur) \cap Keys(prev) : Get(cur, k).size /= Get(prev, k).size}
SameKeys(prev, cur) ==
    {k \in Keys(cur) \cap Keys(prev) : Get(cur, k).size = Get(prev, k).size}

FetchSucceeded == p_cycle.ran /\ p_cycle.fetch \in {"ok", "http_error"}

\* C8: in a cycle that starts before any snapshot was stored, no diff is
\* computed and nothing is notified, whatever was fetched.
C8_FirstCycleSuppressed ==
    (p_cycle.ran /\ ~p_cycle.had_prev) =>
        /\ ~p_cycle.diffed
        /\ p_cycle.changes = NoChanges
        /\ ~p_cycle.invoked
        /\ ~p_cycle.printed

\* the first cycle fetched positions, with a callback set, and stored them
C8_Witness ==
    /\ p_cycle.ran /\ ~p_cycle.had_prev
    /\ p_callback
    /\ p_cycle.current_positions /= <<>>
    /\ p_cycle.stored
    /\ last_positions /= <<>>

\* C9 as stated: when the previous snapshot is empty because an earlier poll
\* stored an empty snapshot, a poll returning a non-empty snapshot S yields a
\* diff with every key of S in `new`, and the callback is invoked with it.
C9_AsStated ==
    (FetchSucceeded /\ p_callback /\ p_cycle.had_prev /\ p_cycle.prev = <<>>
        /\ p_cycle.current_map /= <<>>) =>
        /\ p_cycle.diffed
        /\ KeysOf(p_cycle.changes.new) = Keys(p_cycle.current_map)
        /\ p_cycle.invoked
        /\ p_cycle.cb_args.changes = p_cycle.changes

\* C10 as stated: in every cycle that has a previous snapshot, the callback
\* is invoked iff one of the diff's lists is non-empty, and then with
\* (address, the positions fetched in this cycle, that diff).
C10_AsStated ==
    (FetchSucceeded /\ p_callback /\ p_cycle.had_prev) =>
        LET diff == Changes(p_cycle.prev, p_cycle.current_map) IN
        /\ p_cycle.invoked <=> AnyChanges(diff)
        /\ p_cycle.invoked =>
              p_cycle.cb_args = [address |-> p_address,
                                 positions |-> p_cycle.current_positions,
                                 changes |-> diff]

\* C11 as stated: when the fetch fails in a cycle (the request raises, or
\* the body of the answer does not decode), the loop does not end,
\* last_positions is what it was before the cycle, nothing is notified, and
\* the loop sleeps and goes on to fetch again.
C11_AsStated ==
    (p_cycle.ran /\ p_cycle.fetch \in {"raise", "not_json", "http_error_not_json"}) =>
        /\ ~p_cycle.escaped
        /\ p_pc \in {"sleep", "fetch"}
        /\ last_positions = p_cycle.prev
        /\ ~p_cycle.stored
        /\ ~p_cycle.invoked
        /\ ~p_cycle.printed

\* C12: when the user callback raises in a cycle, the exception stays in that
\* cycle: the loop does not end, it sleeps and goes on to the next fetch.
C12_PollerCallbackIsolation ==
    p_cycle.cb_raised =>
        /\ ~p_cycle.escaped
        /\ p_started
        /\ p_pc \in {"sleep", "fetch"}

\* the cycle after one whose callback raised has fetched
C12_Witness ==
    /\ p_cycle.after_raise
    /\ p_cycle.ran /\ p_cycle.fetch = "ok"
    /\ p_pc = "sleep"

\* --------------------------------------------------- claims: the handle
\* C13 as stated: the handle supports stop(): the call does not raise, the
\* poller ends once the cycle in flight is over (no cycle after that one
\* runs), and no callback is invoked after that cycle.
C13_AsStated ==
    h_stop_calls > 0 =>
        /\ ~h_stop_raised
        /\ h_after_stop /= "more"
        /\ ~h_late_callback

\* C14 as stated: a second stop() on the same handle does not raise and
\* causes no callback invocation.
C14_AsStated ==
    h_stop_calls >= 2 =>
        /\ ~h_stop_raised
        /\ ~h_late_callback

\* ------------------------------------------------- claims: transport
IsPing(f) == f.frame = "PING"
IsHandshake(f) == f.frame = "market"
IsControl(f) == f.frame \in {"subscribe", "unsubscribe"}

\* C15: once the connection has opened, exactly one handshake frame of type
\* "market" was sent, it lists the asset ids given at construction, and
\* every PING on the connection comes after it; nothing is sent before.
C15_Handshake ==
    /\ ~ws_opened => ws_sent = <<>>
    /\ ws_opened =>
          /\ Cardinality({i \in DOMAIN ws_sent : IsHandshake(ws_sent[i])}) = 1
          /\ \E i \in DOMAIN ws_sent :
                /\ ws_sent[i] = [frame |-> "market", assets_ids |-> ws_initial_ids]
                /\ \A j \in DOMAIN ws_sent : IsPing(ws_sent[j]) => i < j

\* the connection opened on a non-empty id list and keepalives followed
C15_Witness ==
    /\ ws_opened
    /\ ws_initial_ids = <<"t1", "t2">>
    /\ Cardinality({j \in DOMAIN ws_sent : IsPing(ws_sent[j])}) >= 2

\* C16: while the connection is open the ping thread has not ended (it is
\* at its send or in its sleep), consecutive PINGs are exactly 10 time
\* units of sleep apart, and the thread ends only once the connection is no
\* longer open; no answer to a PING is awaited anywhere.
C16_Keepalive ==
    /\ (ws_opened /\ ws_running) => ping_pc \in {"send", "sleep"}
    /\ ping_pc = "ended" => ~ws_running
    /\ \A i \in DOMAIN ping_times : i > 1 => ping_times[i] - ping_times[i - 1] = 10
    /\ Len(ping_times) = Cardinality({j \in DOMAIN ws_sent : IsPing(ws_sent[j])})

\* several PINGs went out, none was answered, and the connection is open
\* with the ping thread in its sleep
C16_Witness ==
    /\ ws_opened /\ ws_running
    /\ Len(ping_times) >= 3
    /\ ping_pc = "sleep"
    /\ om_count = 0

\* the control frames sent so far, in order
ControlFrames == SelectSeq(ws_sent, IsControl)

\* C17 as stated: every subscribe/unsubscribe call made so far has put
\* exactly one control frame on the connection, with its operation and
\* exactly its id list.
C17_AsStated ==
    /\ Len(ControlFrames) = Len(t_calls)
    /\ \A i \in DOMAIN t_calls :
          i \in DOMAIN ControlFrames =>
              ControlFrames[i] = [frame |-> t_calls[i].op, assets_ids |-> t_calls[i].ids]

\* the set the calls leave, starting from set
RECURSIVE TrackedAfter(_, _)
TrackedAfter(set, calls) ==
    IF calls = <<>> THEN set
    ELSE TrackedAfter(IF Head(calls).op = "subscribe"
                        THEN set \cup SeqSet(Head(calls).ids)
                        ELSE set \ SeqSet(Head(calls).ids),
                      Tail(calls))

\* C18 as stated: the ids the object holds are the ids given at
\* construction, plus the ids of the subscribe calls whose frame went out,
\* minus those of the unsubscribe calls whose frame went out.
C18_AsStated ==
    ws_created =>
        SeqSet(ws_asset_ids) =
            TrackedAfter(SeqSet(ws_initial_ids), SelectSeq(t_calls, LAMBDA c : ~c.raised))

\* C19: text that does not parse is logged and dropped inside on_message:
\* the message callback is not reached and the dispatch loop goes on; a
\* PONG does nothing at all; and a frame that parses is handed to the
\* message callback also when frames before it were dropped.
C19_InboundFrames ==
    /\ last_frame.kind = "garbage" =>
          /\ ~last_result.delivered /\ ~last_result.invoked
          /\ last_result.om_logged /\ ~last_result.om_escaped
          /\ ws_running
    /\ last_frame.kind = "PONG" => (last_result = NoResult /\ ws_running)
    /\ (earlier.dropped /\ last_frame.kind \in {"dict", "list"}) => last_result.delivered

\* after a dropped frame, a trade went through the filter to the user callback
C19_Witness ==
    /\ earlier.dropped
    /\ last_frame.kind = "dict"
    /\ last_result.delivered /\ last_result.invoked
    /\ ws_running

\* C20: on one connection at most one on_message call, and so at most one
\* message_callback call, is in progress at any time, whatever the ping
\* thread is doing.
C20_SequentialHandling ==
    /\ om_active <= 1
    /\ cb_active <= 1
    /\ cb_active <= om_active

\* a second frame is in its callback, and a PING went out during a handler
C20_Witness ==
    /\ om_count >= 2
    /\ om_active = 1 /\ cb_active = 1
    /\ om_pinged

\* ------------------------------------------- claims: snapshots and cycles
\* the (market, outcome) pairs of a list of positions
PairsOf(positions) == {<<positions[i].market, positions[i].outcome>> : i \in 1..Len(positions)}
\* the position a list holds last under key k
LastWith(positions, k) ==
    positions[CHOOSE i \in 1..Len(positions) :
                 /\ Key(positions[i]) = k
                 /\ \A j \in 1..Len(positions) : Key(positions[j]) = k => j <= i]

\* C22 as stated: the snapshot built in a cycle has one entry for each
\* (market, outcome) pair among the positions fetched: positions with
\* different pairs are in different entries.
C22_AsStated ==
    (p_cycle.ran /\ p_cycle.fetch = "ok") =>
        Len(p_cycle.current_map) = Cardinality(PairsOf(p_cycle.current_positions))

\* C23: last_positions is empty until a cycle has stored, and after a cycle
\* that stored it is exactly the map of the positions fetched in that cycle
\* under the key the loop forms: one entry for each key, holding the last
\* position fetched with that key, and no entry of the older snapshot.
C23_RetainedSnapshot ==
    /\ ~p_cycle.ran => last_positions = <<>>
    /\ (p_cycle.ran /\ p_cycle.stored) =>
          /\ Keys(last_positions) = KeysOf(p_cycle.current_positions)
          /\ Len(last_positions) = Cardinality(KeysOf(p_cycle.current_positions))
          /\ \A k \in Keys(last_positions) :
                Get(last_positions, k) = LastWith(p_cycle.current_positions, k)

\* a cycle stored a snapshot that lacks a key the older snapshot had
C23_Witness ==
    /\ p_cycle.ran /\ p_cycle.stored
    /\ last_positions /= <<>>
    /\ Keys(p_cycle.prev) \ Keys(last_positions) /= {}

\* the order the steps of a cycle are to come in
StepOrder == <<"fetch", "build", "diff", "callback", "print", "store", "sleep">>
Rank(step) == CHOOSE i \in DOMAIN StepOrder : StepOrder[i] = step

\* C24: the steps of a cycle come in the order fetch, build, diff,
\* callback, store, sleep (a step may be absent, none comes early or
\* twice); every cycle, failed or not, ends in one sleep of poll_interval;
\* and between the fetch of a cycle and the fetch of the one before it
\* exactly one sleep, of poll_interval, has returned.
C24_CycleOrder ==
    p_cycle.ran =>
        LET steps == p_cycle.steps IN
        /\ steps[1] = "fetch"
        /\ \A i, j \in DOMAIN steps : i < j => Rank(steps[i]) < Rank(steps[j])
        /\ steps[Len(steps)] = "sleep"
        /\ p_cycle.slept = p_interval
        /\ p_cycle.stored <=> (\E i \in DOMAIN steps : steps[i] = "store")
        /\ p_cycle.not_first => p_cycle.gap = <<p_interval>>
        /\ p_pc = "fetch" => p_gap = <<p_interval>>

\* a cycle after another: the callback was notified, the snapshot stored
\* and the sleep of the caller's interval taken
C24_Witness ==
    /\ p_cycle.ran /\ p_cycle.not_first
    /\ p_interval = 5
    /\ p_cycle.steps = <<"fetch", "build", "diff", "callback", "store", "sleep">>
    /\ p_cycle.gap = <<5>>

\* C25: every entry of `changed` carries the market and outcome of the
\* current position under its key, old_size the size under that key in the
\* previous snapshot and new_size the size under it in the current one, the
\* two sizes differ, and each changed key has exactly one entry.
C25_ChangedEntries ==
    d_done =>
        LET changed == d_changes.changed IN
        /\ \A i \in DOMAIN changed :
              LET e == changed[i]
                  k == Key(e) IN
              /\ k \in Keys(d_prev) \cap Keys(d_cur)
              /\ e.market = Get(d_cur, k).market
              /\ e.outcome = Get(d_cur, k).outcome
              /\ e.old_size = Get(d_prev, k).size
              /\ e.new_size = Get(d_cur, k).size
              /\ e.old_size /= e.new_size
        /\ \A i, j \in DOMAIN changed : Key(changed[i]) = Key(changed[j]) => i = j
        /\ \A k \in ChangedKeys(d_prev, d_cur) : \E i \in DOMAIN changed : Key(changed[i]) = k

\* two keys changed size between the two snapshots
C25_Witness ==
    /\ d_done
    /\ Len(d_changes.changed) = 2
    /\ d_changes.changed[1].old_size /= d_changes.changed[2].old_size

\* C26: nothing but an event of event_type "trade" is forwarded: whatever
\* its status and size, a message with another or no event_type neither
\* invokes the user callback nor is printed as a whale trade.
C26_OnlyTrades ==
    (last_result.invoked \/ last_result.printed) =>
        (last_frame.kind = "dict" /\ last_frame.event_type = "trade")

\* a MATCHED message over the threshold, of another event_type, went
\* through the filter and was not forwarded
C26_Witness ==
    /\ wm_cfg.callback /\ last_result.delivered
    /\ last_frame.kind = "dict" /\ last_frame.event_type /= "trade"
    /\ last_frame.status = "MATCHED" /\ ~Malformed /\ MeetsThreshold
    /\ ~last_result.invoked

\* C27: a cycle whose callback raised has not stored: last_positions is
\* what it was before the cycle; and when the next cycle fetches the same
\* list, it reads that same older snapshot, finds the same changes and
\* invokes the callback with them again.
C27_RaiseSkipsStore ==
    /\ p_cycle.cb_raised =>
          /\ ~p_cycle.stored
          /\ last_positions = p_cycle.prev
    /\ (p_cycle.after_raise /\ p_cycle.same_fetch) =>
          /\ p_cycle.same_prev
          /\ p_cycle.diffed /\ AnyChanges(p_cycle.changes)
          /\ p_cycle.invoked
          /\ p_cycle.cb_args.changes = Changes(p_cycle.prev, p_cycle.current_map)

\* the cycle after a raise fetched the same list, reported the change
\* again, and this time stored
C27_Witness ==
    /\ p_cycle.after_raise /\ p_cycle.same_fetch
    /\ p_cycle.invoked /\ ~p_cycle.cb_raised
    /\ p_cycle.stored /\ last_positions = p_cycle.current_map

\* C28: a non-200 answer is not a failed fetch to the loop: the fetch
\* yields the empty list, nothing raises, every position of the previous
\* snapshot is reported in `closed` (and nothing in `new` or `changed`), and
\* unless the callback raises the empty snapshot is stored.
C28_Non200IsEmpty ==
    (p_cycle.ran /\ p_cycle.fetch \in {"http_error", "http_error_not_json"}) =>
        /\ p_cycle.current_positions = <<>> /\ p_cycle.current_map = <<>>
        /\ p_cycle.failed <=> p_cycle.cb_raised
        /\ p_cycle.prev /= <<>> =>
              /\ p_cycle.diffed
              /\ p_cycle.changes = [new |-> <<>>, changed |-> <<>>,
                                    closed |-> Values(p_cycle.prev)]
              /\ p_callback => (p_cycle.invoked /\ p_cycle.cb_args.changes = p_cycle.changes)
        /\ ~p_cycle.cb_raised => (p_cycle.stored /\ last_positions = <<>>)

\* a non-200 answer arrived while positions were held: all were reported
\* closed and the snapshot is now empty
C28_Witness ==
    /\ p_cycle.ran /\ p_cycle.fetch = "http_error"
    /\ Len(p_cycle.prev) = 2
    /\ p_cycle.invoked /\ Len(p_cycle.cb_args.changes.closed) = 2
    /\ last_positions = <<>>

\* ------------------------------------------- claims: loop end, targets
\* the connection was started and is gone
ConnectionGone == ws_thread_started /\ ~ws_running

\* C29: once the connection is gone nothing more is sent on it; the send
\* the ping thread then attempts fails and ends the loop; and an ended loop
\* stays ended.
C29_PingLoopEnds ==
    [][/\ ConnectionGone => ws_sent' = ws_sent
       /\ (ConnectionGone /\ ping_pc = "send" /\ ping_pc' /= "send") => ping_pc' = "ended"
       /\ ping_pc = "ended" => (ping_pc' = "ended" /\ ping_times' = ping_times)]_vars

\* PINGs went out, the connection closed, and the loop has ended
C29_Witness ==
    /\ ConnectionGone
    /\ ping_pc = "ended"
    /\ Len(ping_times) >= 2

\* the token ids a market reference stands for, and the reference on which
\* both lookups raise
TokensOf(ref) ==
    CASE ref = "slug_ok" -> <<"t1", "t2">>
      [] ref = "cond_ok" -> <<"t3">>
      [] OTHER           -> <<>>
LookupRaises(ref) == ref = "api_down"
RECURSIVE ConcatTokens(_)
ConcatTokens(markets) ==
    IF markets = <<>> THEN <<>> ELSE TokensOf(Head(markets)) \o ConcatTokens(Tail(markets))

\* C30: a call with neither markets nor asset_ids raises with nothing
\* resolved and nothing created; a call with markets that returned runs on
\* exactly the concatenation of the ids its references stand for, whatever
\* asset_ids was passed, and that list is the handshake's; and a call
\* whose references give at least one id and raise nowhere does return,
\* the references giving nothing being passed over.
C30_TargetSelection ==
    /\ (wm_call /= "not_called" /\ ~wm_markets.given /\ ~wm_asset_ids.given) =>
          /\ wm_call = "ValueError_args"
          /\ wm_resolved = <<>> /\ ~ws_created /\ ~ws_thread_started /\ ws_sent = <<>>
    /\ (wm_markets.given /\ wm_call = "returned") =>
          /\ ws_asset_ids = ConcatTokens(wm_markets.v)
          /\ ws_opened => ws_sent[1] = [frame |-> "market",
                                         assets_ids |-> ConcatTokens(wm_markets.v)]
    /\ (wm_markets.given /\ wm_call /= "not_called"
           /\ ConcatTokens(wm_markets.v) /= <<>>
           /\ \A i \in DOMAIN wm_markets.v : ~LookupRaises(wm_markets.v[i])) =>
          wm_call = "returned"

\* a call given a reference that gives nothing, one that gives two ids and
\* an asset_ids list of its own has opened on the two resolved ids
C30_Witness ==
    /\ wm_call = "returned" /\ ws_opened
    /\ wm_markets = [given |-> TRUE, v |-> <<"unknown", "slug_ok">>]
    /\ wm_asset_ids = [given |-> TRUE, v |-> <<"t9">>]
    /\ ws_sent[1].assets_ids = <<"t1", "t2">>

\* ------------------------------------------------ claims: monitor isolation
\* the snapshot the loop of call i left behind at its last cycle, {} before
SnapshotLeftBy(i) == IF pl_cycle[i].ran THEN pl_cycle[i].new_last ELSE <<>>

\* call i's loop runs one cycle in this step
CycleOf(i) == pl_pc[i] = "fetch" /\ pl_pc'[i] /= "fetch"

\* C21: a cycle of one poller reads, as its previous snapshot, what its own
\* last cycle left, reports the diff of that against its own fetch to its
\* own address, and leaves every other poller's snapshot, position and
\* record and the whale monitor's state as they were; a step of the whale
\* monitor leaves every poller's state as it was.
C21_MonitorIsolation ==
    [][/\ \A i \in Pollers : CycleOf(i) =>
             /\ pl_cycle'[i].prev = SnapshotLeftBy(i)
             /\ pl_last_positions'[i] = pl_cycle'[i].new_last
             /\ pl_cycle'[i].invoked =>
                   /\ pl_cycle'[i].cb_args.address = AddressOf(i)
                   /\ pl_cycle'[i].cb_args.changes =
                        Changes(SnapshotLeftBy(i), BuildMap(pl_cycle'[i].current_positions))
             /\ \A j \in Pollers \ {i} :
                   /\ pl_last_positions'[j] = pl_last_positions[j]
                   /\ pl_cycle'[j] = pl_cycle[j]
                   /\ pl_pc'[j] = pl_pc[j]
             /\ UNCHANGED <<whale_vars, transport_vars>>
       /\ (whale_vars' /= whale_vars) => UNCHANGED pollers_vars]_vars

\* two pollers hold different non-empty snapshots while the whale monitor's
\* connection is open, and the second has reported a change of its own
C21_Witness ==
    /\ pl_last_positions[1] /= <<>> /\ pl_last_positions[2] /= <<>>
    /\ pl_last_positions[1] /= pl_last_positions[2]
    /\ pl_cycle[1].ran /\ pl_cycle[2].invoked
    /\ ws_opened

====
